---- MODULE Spec2Model ----
(***************************************************************************)
(* State-machine model of src/src/App.tsx (AI picture styler).             *)
(*                                                                         *)
(* The React component App owns eight useState cells.  Two asynchronous    *)
(* steps exist: FileReader.readAsDataURL (completion: reader.onload) and   *)
(* ai.models.generateContent (completion: the code after the await in      *)
(* handleGenerate).  Every event handler and every completion runs to its  *)
(* end on the single UI thread and React commits the batched state updates *)
(* before the next event is dispatched, so each handler is one action.     *)
(*                                                                         *)
(* Strings are TLA+ strings.  Module strings are ASCII, so the messages of *)
(* the source that are written in Chinese are represented by the named     *)
(* constants MSG_* below, each a distinct ASCII string; the comment at     *)
(* each definition quotes the source line.                                 *)
(*                                                                         *)
(* A value of type `string | null' is modelled as a sequence of length at  *)
(* most one: None is null, Some(s) is the string s.                        *)
(*                                                                         *)
(* A text the user types (customStyle), and the prompt and the instruction *)
(* made from it, can hold any character; they are modelled as what a       *)
(* string of the program is, a sequence of UTF-16 code units (numbers in   *)
(* 0..65535).  Str gives the code units of an ASCII string.                *)
(***************************************************************************)
EXTENDS Integers, Sequences, FiniteSets, TLC

VARIABLES
  originalImage,   \* useState<string | null>(null)          App.tsx:14
  mimeType,        \* useState<string>('')                   App.tsx:15
  selectedStyle,   \* useState<string>(PRESET_STYLES[0].id)  App.tsx:16
  customStyle,     \* useState<string>('')                   App.tsx:17
                   \* (a sequence of code units)
  generatedImage,  \* useState<string | null>(null)          App.tsx:18
  isGenerating,    \* useState(false)                        App.tsx:19
  error,           \* useState<string | null>(null)          App.tsx:20
  isDragging,      \* useState(false)                        App.tsx:21
  readers,         \* FileReaders whose readAsDataURL has not fired onload yet
  inflight,        \* generateContent calls that have neither resolved nor rejected
  lastOp,          \* history: the last function that wrote to the image, the result,
                   \* the error or the busy flag, or started or ended a read or a call
  accepted         \* history: while a read is pending, the file processFile
                   \* accepted last; None while no read is pending

vars == <<originalImage, mimeType, selectedStyle, customStyle, generatedImage,
          isGenerating, error, isDragging, readers, inflight, lastOp, accepted>>

uiState == <<originalImage, mimeType, selectedStyle, customStyle, generatedImage,
             isGenerating, error, isDragging>>

-----------------------------------------------------------------------------
(* Bounds of the model *)

MaxReaders == 2    \* most file reads pending at once
MaxRequests == 2   \* most generateContent calls pending at once

-----------------------------------------------------------------------------
(* Option values *)

None == <<>>
Some(s) == <<s>>

-----------------------------------------------------------------------------
(* Strings as sequences of code units *)

\* the characters U+0020 .. U+005F, and U+0061 .. U+007E, in the order of
\* their codes (U+0060 cannot stand in a string of a module)
AsciiLow ==
  " !\"#$%&'()*+,-./0123456789:;<=>?@ABCDEFGHIJKLMNOPQRSTUVWXYZ[\\]^_"
AsciiHigh == "abcdefghijklmnopqrstuvwxyz{|}~"

\* the code unit of the character c of an ASCII string
CodeUnit(c) ==
  IF c = "\t" THEN 9
  ELSE IF c = "\n" THEN 10
  ELSE IF c = "\f" THEN 12
  ELSE IF c = "\r" THEN 13
  ELSE IF \E k \in 1..Len(AsciiLow) : SubSeq(AsciiLow, k, k) = c
  THEN 31 + CHOOSE k \in 1..Len(AsciiLow) : SubSeq(AsciiLow, k, k) = c
  ELSE 96 + CHOOSE k \in 1..Len(AsciiHigh) : SubSeq(AsciiHigh, k, k) = c

\* the code units of the ASCII string s
Str(s) == [k \in 1..Len(s) |-> CodeUnit(SubSeq(s, k, k))]

-----------------------------------------------------------------------------
(* Literals of the source *)

PRESET_STYLES ==
  << [id |-> "anime",
      prompt |-> Str("Anime style, Studio Ghibli, high quality, vibrant colors, 2D illustration")],
     [id |-> "cyberpunk",
      prompt |-> Str("Cyberpunk style, neon lights, futuristic city, highly detailed, sci-fi")],
     [id |-> "watercolor",
      prompt |-> Str("Watercolor painting style, artistic, soft edges, expressive brush strokes")],
     [id |-> "sketch",
      prompt |-> Str("Pencil sketch style, detailed, black and white, hand-drawn")],
     [id |-> "3d",
      prompt |-> Str("3D render, Pixar style, Unreal Engine 5, volumetric lighting, cute")] >>

PresetIds == { PRESET_STYLES[i].id : i \in 1..Len(PRESET_STYLES) }

\* App.tsx:27  setError('請上傳圖片檔案 (JPEG, PNG 等)')
MSG_INVALID_TYPE == "Please upload an image file (JPEG, PNG, etc.)"
\* App.tsx:70  setError('請先上傳圖片')
MSG_NO_IMAGE == "Please upload an image first"
\* App.tsx:79  setError('請選擇或輸入風格')
MSG_NO_STYLE == "Please select or enter a style"
\* App.tsx:120 throw new Error('無法生成圖片，請稍後再試')
MSG_NO_RESULT == "Unable to generate the image, please try again later"
\* App.tsx:124 err.message || '發生錯誤，請稍後再試'
MSG_FALLBACK == "An error occurred, please try again later"
\* App.tsx:109 message of the TypeError raised by reading .parts of a missing content
MSG_TYPE_ERROR == "Cannot read properties of undefined (reading 'parts')"

-----------------------------------------------------------------------------
(* String functions of the platform, as the code uses them *)

\* String.prototype.startsWith
StartsWith(s, p) == Len(s) >= Len(p) /\ SubSeq(s, 1, Len(p)) = p

\* the code units String.prototype.trim strips: the WhiteSpace characters of
\* ECMAScript (tab, vertical tab, form feed, space, no-break space, zero
\* width no-break space, and the Unicode space separators U+1680,
\* U+2000..U+200A, U+202F, U+205F, U+3000) and its LineTerminator characters
\* (line feed, carriage return, U+2028, U+2029)
WhiteSpaceCodes ==
  {9, 11, 12, 32, 160, 65279, 5760, 8239, 8287, 12288} \cup (8192..8202)
    \cup {10, 13, 8232, 8233}

\* variant of IsWhiteSpace: the white space of ASCII only
IsWhiteSpaceAscii(c) == c \in {9, 10, 11, 12, 13, 32}

\* a code unit String.prototype.trim strips (App.tsx:78, 280)
IsWhiteSpace(c) == c \in WhiteSpaceCodes

\* String.prototype.trimStart: s from its first code unit that is not white
\* space on, the empty string when it has none
TrimStart(s) ==
  IF \A k \in 1..Len(s) : IsWhiteSpace(s[k])
  THEN << >>
  ELSE SubSeq(s, CHOOSE i \in 1..Len(s) :
                   /\ ~IsWhiteSpace(s[i])
                   /\ \A j \in 1..(i - 1) : IsWhiteSpace(s[j]),
              Len(s))

\* String.prototype.trimEnd: s up to its last code unit that is not white
\* space, the empty string when it has none
TrimEnd(s) ==
  IF \A k \in 1..Len(s) : IsWhiteSpace(s[k])
  THEN << >>
  ELSE SubSeq(s, 1, CHOOSE i \in 1..Len(s) :
                      /\ ~IsWhiteSpace(s[i])
                      /\ \A j \in (i + 1)..Len(s) : IsWhiteSpace(s[j]))

\* String.prototype.trim
Trim(s) == TrimEnd(TrimStart(s))

\* index of the first "," of s at or after position i, or 0
RECURSIVE IndexOfComma(_, _)
IndexOfComma(s, i) ==
  IF i > Len(s) THEN 0
  ELSE IF SubSeq(s, i, i) = "," THEN i
  ELSE IndexOfComma(s, i + 1)

\* s.split(','): the pieces of s between its commas, in order
RECURSIVE SplitComma(_)
SplitComma(s) ==
  LET k == IndexOfComma(s, 1)
  IN  IF k = 0 THEN << s >>
      ELSE << SubSeq(s, 1, k - 1) >> \o SplitComma(SubSeq(s, k + 1, Len(s)))

\* FileReader.readAsDataURL: the data-URI of a file (file.data is the
\* base64 text of its bytes)
ReadAsDataURL(file) == "data:" \o file.type \o ";base64," \o file.data


-----------------------------------------------------------------------------
(* Inputs: the files a user can offer, the texts a user can type, and the  *)
(* ways the remote call can settle                                          *)

Files ==
  { [type |-> "image/png",  data |-> "iVBO"],
    [type |-> "image/jpeg", data |-> "/9j/"],
    [type |-> "text/plain", data |-> "aGk="] }

\* a text of white space only, with every character trim strips but the
\* carriage return, which a textarea turns into a line feed: space, tab,
\* line feed, form feed, vertical tab, U+00A0, U+1680, U+2000 .. U+200A,
\* U+2028, U+2029, U+202F, U+205F, U+3000 (the full-width space of a Chinese
\* input method), U+FEFF
WhiteSpaceText ==
  << 32, 9, 10, 12, 11, 160, 5760,
     8192, 8193, 8194, 8195, 8196, 8197, 8198, 8199, 8200, 8201, 8202,
     8232, 8233, 8239, 8287, 12288, 65279 >>

\* a text of words with white space around and inside
OilPaintText == Str(" oil paint ")

\* texts typed or pasted into the textarea: empty, white space only, and
\* words with white space around and inside
CustomTexts == {<< >>, WhiteSpaceText, OilPaintText}

TextPart(t) == [text |-> Some(t), inlineData |-> None]
ImagePart(m, d) == [text |-> None, inlineData |-> Some([mimeType |-> m, data |-> d])]
Candidate(parts) == [content |-> Some([parts |-> parts])]
Resolve(cands) == [kind |-> "resolve", candidates |-> cands, message |-> None]
Reject(msg) == [kind |-> "reject", candidates |-> None, message |-> msg]

Outcomes ==
  { Resolve(None),                                                   \* no candidates field
    Resolve(Some(<< >>)),                                            \* empty candidate list
    Resolve(Some(<< Candidate(<< TextPart("ok") >>) >>)),            \* text only
    Resolve(Some(<< Candidate(<< ImagePart(Some("image/jpeg"), "AAAA") >>) >>)),
    Resolve(Some(<< Candidate(<< TextPart("ok"), ImagePart(None, "BBBB") >>) >>)),
    Resolve(Some(<< Candidate(<< ImagePart(Some(""), "BBBB"),
                                  ImagePart(Some("image/jpeg"), "AAAA") >>) >>)),
    Resolve(Some(<< Candidate(<< TextPart("ok") >>),
                    Candidate(<< ImagePart(Some("image/jpeg"), "AAAA") >>) >>)),
    Resolve(Some(<< [content |-> None] >>)),                         \* candidate without content
    Reject(Some("quota exceeded")),
    Reject(Some("")),
    Reject(None) }

-----------------------------------------------------------------------------
(* Pure parts of handleGenerate *)

\* PRESET_STYLES.find(s => s.id === id)?.prompt
RECURSIVE FindPrompt(_, _)
FindPrompt(id, i) ==
  IF i > Len(PRESET_STYLES) THEN None
  ELSE IF PRESET_STYLES[i].id = id THEN Some(PRESET_STYLES[i].prompt)
  ELSE FindPrompt(id, i + 1)

\* variant of PromptText: the custom text is trimmed before it is used
PromptTextTrimmed(style, custom) ==
  IF style = "custom" THEN Some(Trim(custom)) ELSE FindPrompt(style, 1)

\* promptText (App.tsx:74-76)
PromptText(style, custom) ==
  IF style = "custom" THEN Some(custom) ELSE FindPrompt(style, 1)

\* variant of PromptMissing: the test without the trim
PromptMissingNoTrim(p) == p = None \/ p = Some(<< >>)

\* !promptText || promptText.trim() === '' (App.tsx:78)
PromptMissing(p) == p = None \/ p = Some(<< >>) \/ Trim(p[1]) = << >>

\* the two literal pieces of the template string (App.tsx:101)
InstructionHead == Str("Convert this image to the following style: ")
InstructionTail == Str(". Keep the main subject and composition the same.")

\* the text part of the request (App.tsx:101)
Instruction(promptText) == InstructionHead \o promptText \o InstructionTail

\* originalImage.split(',')[1] (App.tsx:88); None is undefined
Base64Data(uri) ==
  LET pieces == SplitComma(uri)
  IN  IF Len(pieces) >= 2 THEN Some(pieces[2]) ELSE None

\* the request handed to ai.models.generateContent (App.tsx:90-105)
Request(image, mime, promptText) ==
  [data |-> Base64Data(image), mimeType |-> mime, text |-> Instruction(promptText)]

\* imgUrl (App.tsx:111)
ImgUrl(inline) ==
  "data:"
    \o (IF inline.mimeType = None \/ inline.mimeType = Some("")
        THEN "image/png" ELSE inline.mimeType[1])
    \o ";base64," \o inline.data

\* variant of ScanParts: the loop has no break, so the last part with
\* inlineData decides
RECURSIVE ScanPartsNoBreak(_, _)
ScanPartsNoBreak(parts, i) ==
  IF i > Len(parts) THEN None
  ELSE LET later == ScanPartsNoBreak(parts, i + 1)
       IN  IF later # None THEN later
           ELSE IF parts[i].inlineData # None
           THEN Some(ImgUrl(parts[i].inlineData[1]))
           ELSE None

\* the for loop over the parts (App.tsx:109-116): the url of the first part
\* that has inlineData, or None
RECURSIVE ScanParts(_, _)
ScanParts(parts, i) ==
  IF i > Len(parts) THEN None
  ELSE IF parts[i].inlineData # None THEN Some(ImgUrl(parts[i].inlineData[1]))
  ELSE ScanParts(parts, i + 1)

\* variant of Settled: the fallback replaces a missing message only, as with
\* err.message ?? fallback
SettledNullishFallback(outcome) ==
  IF outcome.kind = "reject"
  THEN [image |-> None,
        message |-> IF outcome.message = None
                    THEN Some(MSG_FALLBACK) ELSE outcome.message]
  ELSE IF outcome.candidates = None \/ Len(outcome.candidates[1]) = 0
  THEN [image |-> None, message |-> Some(MSG_NO_RESULT)]
  ELSE IF outcome.candidates[1][1].content = None
  THEN [image |-> None, message |-> Some(MSG_TYPE_ERROR)]
  ELSE LET found == ScanParts(outcome.candidates[1][1].content[1].parts, 1)
       IN  IF found = None
           THEN [image |-> None, message |-> Some(MSG_NO_RESULT)]
           ELSE [image |-> found, message |-> None]

\* what the code after the await does with a settled call (App.tsx:107-124):
\* image is the argument of setGeneratedImage (None: not called), message the
\* argument of setError (None: not called)
Settled(outcome) ==
  IF outcome.kind = "reject"
  THEN [image |-> None,
        message |-> Some(IF outcome.message = None \/ outcome.message = Some("")
                         THEN MSG_FALLBACK ELSE outcome.message[1])]
  ELSE IF outcome.candidates = None \/ Len(outcome.candidates[1]) = 0
  THEN [image |-> None, message |-> Some(MSG_NO_RESULT)]
  ELSE IF outcome.candidates[1][1].content = None
  THEN [image |-> None, message |-> Some(MSG_TYPE_ERROR)]
  ELSE LET found == ScanParts(outcome.candidates[1][1].content[1].parts, 1)
       IN  IF found = None
           THEN [image |-> None, message |-> Some(MSG_NO_RESULT)]
           ELSE [image |-> found, message |-> None]

\* !x for x of type string | null
Falsy(x) == x = None \/ x = Some("")

\* !originalImage (App.tsx:69, 280)
NoImage == Falsy(originalImage)

\* selectedStyle === 'custom' && !customStyle.trim() (App.tsx:280)
BlankCustom == selectedStyle = "custom" /\ Trim(customStyle) = << >>

\* variant of Disabled: the button stays enabled while a call is pending
DisabledIgnoringBusy == NoImage \/ BlankCustom

\* variant of Disabled: the style is left to the handler's own check
DisabledNoStyleCheck == NoImage \/ isGenerating

\* disabled attribute of the trigger button (App.tsx:280)
Disabled == NoImage \/ isGenerating \/ BlankCustom

\* the sequence s without its i-th element
RemoveAt(s, i) == SubSeq(s, 1, i - 1) \o SubSeq(s, i + 1, Len(s))

-----------------------------------------------------------------------------
(* Initial state: the useState initialisers (App.tsx:14-21) *)

\* the value of lastOp after the function handler ran and took branch;
\* clearedError and clearedResult tell whether it wiped a shown error and a
\* shown result
Op(handler, branch) ==
  [h |-> handler, b |-> branch, clearedError |-> FALSE, clearedResult |-> FALSE]

Init ==
  /\ originalImage = None
  /\ mimeType = ""
  /\ selectedStyle = PRESET_STYLES[1].id
  /\ customStyle = << >>
  /\ generatedImage = None
  /\ isGenerating = FALSE
  /\ error = None
  /\ isDragging = FALSE
  /\ readers = << >>
  /\ inflight = << >>
  /\ lastOp = [h |-> "init", b |-> "", clearedError |-> FALSE, clearedResult |-> FALSE]
  /\ accepted = None

-----------------------------------------------------------------------------
(* Image intake *)

\* variant of processFile: the return after the type check is missing
processFileNoReturn(file) ==
  /\ Len(readers) < MaxReaders
  /\ readers' = Append(readers, file)
  /\ error' = (IF ~StartsWith(file.type, "image/")
               THEN Some(MSG_INVALID_TYPE) ELSE error)
  /\ lastOp' = Op("processFile",
                  IF ~StartsWith(file.type, "image/") THEN "invalid" ELSE "read")
  /\ accepted' = Some(file)

\* processFile (App.tsx:25-40); it writes error and starts at most one
\* file read
processFile(file) ==
  IF ~StartsWith(file.type, "image/")
  THEN /\ error' = Some(MSG_INVALID_TYPE)
       /\ readers' = readers
       /\ lastOp' = Op("processFile", "invalid")
       /\ accepted' = accepted
  ELSE /\ Len(readers) < MaxReaders
       /\ readers' = Append(readers, file)
       /\ error' = error
       /\ lastOp' = Op("processFile", "read")
       /\ accepted' = Some(file)

\* handleFileChange (App.tsx:42-45) with the first file of the change event.
\* The hidden file input is rendered in every state (App.tsx:207-213), so
\* its change event has no guard.  A change event without a file runs
\* nothing but the test at App.tsx:44 and is a stuttering step.
handleFileChange(file) ==
  /\ processFile(file)
  /\ UNCHANGED <<originalImage, mimeType, selectedStyle, customStyle,
                 generatedImage, isGenerating, isDragging, inflight>>

\* handleDragOver (App.tsx:47-51)
handleDragOver ==
  /\ originalImage = None
  /\ isDragging' = TRUE
  /\ lastOp' = lastOp
  /\ UNCHANGED <<originalImage, mimeType, selectedStyle, customStyle,
                 generatedImage, isGenerating, error, readers, inflight, accepted>>

\* handleDragLeave (App.tsx:53-57)
handleDragLeave ==
  /\ originalImage = None
  /\ isDragging' = FALSE
  /\ lastOp' = lastOp
  /\ UNCHANGED <<originalImage, mimeType, selectedStyle, customStyle,
                 generatedImage, isGenerating, error, readers, inflight, accepted>>

\* handleDrop (App.tsx:59-66) with the dropped file list files
handleDrop(files) ==
  /\ originalImage = None
  /\ isDragging' = FALSE
  /\ IF files = None
     THEN UNCHANGED <<error, readers, lastOp, accepted>>
     ELSE processFile(files[1])
  /\ UNCHANGED <<originalImage, mimeType, selectedStyle, customStyle,
                 generatedImage, isGenerating, inflight>>

\* variant of ReaderOnload: the banner is left as it was
ReaderOnloadKeepsError(i) ==
  /\ i \in 1..Len(readers)
  /\ originalImage' = Some(ReadAsDataURL(readers[i]))
  /\ mimeType' = readers[i].type
  /\ generatedImage' = None
  /\ readers' = RemoveAt(readers, i)
  /\ accepted' = (IF Len(readers) = 1 THEN None ELSE accepted)
  /\ lastOp' = [Op("onload", "") EXCEPT !.clearedError = error # None,
                                       !.clearedResult = generatedImage # None]
  /\ UNCHANGED <<selectedStyle, customStyle, isGenerating, error, isDragging,
                 inflight>>

\* reader.onload (App.tsx:32-38) of the i-th pending read
ReaderOnload(i) ==
  /\ i \in 1..Len(readers)
  /\ originalImage' = Some(ReadAsDataURL(readers[i]))
  /\ mimeType' = readers[i].type
  /\ generatedImage' = None
  /\ error' = None
  /\ readers' = RemoveAt(readers, i)
  /\ accepted' = (IF Len(readers) = 1 THEN None ELSE accepted)
  /\ lastOp' = [Op("onload", "") EXCEPT !.clearedError = error # None,
                                       !.clearedResult = generatedImage # None]
  /\ UNCHANGED <<selectedStyle, customStyle, isGenerating, isDragging,
                 inflight>>

\* variant of RemoveImage: the result panel is left as it was
RemoveImageKeepsResult ==
  /\ originalImage # None
  /\ originalImage' = None
  /\ lastOp' = [Op("removeImage", "") EXCEPT !.clearedResult = generatedImage # None]
  /\ UNCHANGED <<mimeType, selectedStyle, customStyle, generatedImage,
                 isGenerating, error, isDragging, readers, inflight, accepted>>

\* variant of RemoveImage: the media type is reset with the image
RemoveImageResetsMimeType ==
  /\ originalImage # None
  /\ originalImage' = None
  /\ generatedImage' = None
  /\ mimeType' = ""
  /\ lastOp' = [Op("removeImage", "") EXCEPT !.clearedResult = generatedImage # None]
  /\ UNCHANGED <<selectedStyle, customStyle, isGenerating, error,
                 isDragging, readers, inflight, accepted>>

\* variant of RemoveImage: the banner is cleared with the image
RemoveImageClearsError ==
  /\ originalImage # None
  /\ originalImage' = None
  /\ generatedImage' = None
  /\ error' = None
  /\ lastOp' = [Op("removeImage", "") EXCEPT !.clearedResult = generatedImage # None]
  /\ UNCHANGED <<mimeType, selectedStyle, customStyle, isGenerating,
                 isDragging, readers, inflight, accepted>>

\* onClick of the remove-image button (App.tsx:194-198); the button is
\* rendered only while originalImage is set.  Clearing the value of the file
\* input changes no state of the component.
RemoveImage ==
  /\ originalImage # None
  /\ originalImage' = None
  /\ generatedImage' = None
  /\ lastOp' = [Op("removeImage", "") EXCEPT !.clearedResult = generatedImage # None]
  /\ UNCHANGED <<mimeType, selectedStyle, customStyle, isGenerating, error,
                 isDragging, readers, inflight, accepted>>

-----------------------------------------------------------------------------
(* Style selection *)

\* onClick of a preset card (App.tsx:229)
ChoosePreset(id) ==
  /\ id \in PresetIds
  /\ selectedStyle' = id
  /\ lastOp' = lastOp
  /\ UNCHANGED <<originalImage, mimeType, customStyle, generatedImage,
                 isGenerating, error, isDragging, readers, inflight, accepted>>

\* variant of ChooseCustom: the textarea starts empty each time it is shown
ChooseCustomClearsText ==
  /\ selectedStyle' = "custom"
  /\ customStyle' = << >>
  /\ lastOp' = lastOp
  /\ UNCHANGED <<originalImage, mimeType, generatedImage,
                 isGenerating, error, isDragging, readers, inflight, accepted>>

\* onClick of the custom card (App.tsx:243)
ChooseCustom ==
  /\ selectedStyle' = "custom"
  /\ lastOp' = lastOp
  /\ UNCHANGED <<originalImage, mimeType, customStyle, generatedImage,
                 isGenerating, error, isDragging, readers, inflight, accepted>>

\* onChange of the textarea (App.tsx:264), rendered only for the custom
\* style (App.tsx:257)
EditCustom(text) ==
  /\ selectedStyle = "custom"
  /\ customStyle' = text
  /\ lastOp' = lastOp
  /\ UNCHANGED <<originalImage, mimeType, selectedStyle, generatedImage,
                 isGenerating, error, isDragging, readers, inflight, accepted>>

-----------------------------------------------------------------------------
(* Generation *)

\* variant of handleGenerate: the style is checked before the image
handleGenerateStyleFirst ==
  LET promptText == PromptText(selectedStyle, customStyle)
  IN  IF PromptMissing(promptText)
      THEN /\ error' = Some(MSG_NO_STYLE)
           /\ lastOp' = Op("handleGenerate", "noStyle")
           /\ UNCHANGED <<isGenerating, inflight>>
      ELSE IF NoImage
      THEN /\ error' = Some(MSG_NO_IMAGE)
           /\ lastOp' = Op("handleGenerate", "noImage")
           /\ UNCHANGED <<isGenerating, inflight>>
      ELSE /\ Len(inflight) < MaxRequests
           /\ isGenerating' = TRUE
           /\ error' = None
           /\ inflight' = Append(inflight,
                            Request(originalImage[1], mimeType, promptText[1]))
           /\ lastOp' = [Op("handleGenerate", "start") EXCEPT !.clearedError = error # None]

\* handleGenerate up to its await (App.tsx:68-105)
handleGenerate ==
  IF NoImage
  THEN /\ error' = Some(MSG_NO_IMAGE)
       /\ lastOp' = Op("handleGenerate", "noImage")
       /\ UNCHANGED <<isGenerating, inflight>>
  ELSE LET promptText == PromptText(selectedStyle, customStyle)
       IN  IF PromptMissing(promptText)
           THEN /\ error' = Some(MSG_NO_STYLE)
                /\ lastOp' = Op("handleGenerate", "noStyle")
                /\ UNCHANGED <<isGenerating, inflight>>
           ELSE /\ Len(inflight) < MaxRequests
                /\ isGenerating' = TRUE
                /\ error' = None
                /\ inflight' = Append(inflight,
                                 Request(originalImage[1], mimeType, promptText[1]))
                /\ lastOp' = [Op("handleGenerate", "start") EXCEPT !.clearedError = error # None]

\* onClick of the trigger button (App.tsx:279), which a disabled button
\* does not deliver (App.tsx:280)
ClickGenerate ==
  /\ ~Disabled
  /\ handleGenerate
  /\ UNCHANGED <<originalImage, mimeType, selectedStyle, customStyle,
                 generatedImage, isDragging, readers, accepted>>

\* handleGenerate called as a function in a state where the button would not
\* deliver the click for want of an image or of a style text
InvokeHandleGenerate ==
  /\ NoImage \/ BlankCustom
  /\ handleGenerate
  /\ UNCHANGED <<originalImage, mimeType, selectedStyle, customStyle,
                 generatedImage, isDragging, readers, accepted>>

\* variant of RequestSettles: the finally block is missing
RequestSettlesKeepsBusy(i, outcome) ==
  /\ i \in 1..Len(inflight)
  /\ LET r == Settled(outcome)
     IN  /\ generatedImage' = (IF r.image # None THEN r.image ELSE generatedImage)
         /\ error' = (IF r.message # None THEN r.message ELSE error)
         /\ lastOp' = Op("settle", IF r.image # None THEN "image" ELSE "failed")
  /\ inflight' = RemoveAt(inflight, i)
  /\ UNCHANGED <<originalImage, mimeType, selectedStyle, customStyle,
                 isGenerating, isDragging, readers, accepted>>

\* variant of RequestSettles: a result clears the banner
RequestSettlesClearsError(i, outcome) ==
  /\ i \in 1..Len(inflight)
  /\ LET r == Settled(outcome)
     IN  /\ generatedImage' = (IF r.image # None THEN r.image ELSE generatedImage)
         /\ error' = r.message
         /\ lastOp' = Op("settle", IF r.image # None THEN "image" ELSE "failed")
  /\ isGenerating' = FALSE
  /\ inflight' = RemoveAt(inflight, i)
  /\ UNCHANGED <<originalImage, mimeType, selectedStyle, customStyle,
                 isDragging, readers, accepted>>

\* variant of RequestSettles: setIsGenerating(false) is the last statement of
\* the try block instead of a finally block
RequestSettlesBusyOnFailure(i, outcome) ==
  /\ i \in 1..Len(inflight)
  /\ LET r == Settled(outcome)
     IN  /\ generatedImage' = (IF r.image # None THEN r.image ELSE generatedImage)
         /\ error' = (IF r.message # None THEN r.message ELSE error)
         /\ isGenerating' = (IF r.image # None THEN FALSE ELSE isGenerating)
         /\ lastOp' = Op("settle", IF r.image # None THEN "image" ELSE "failed")
  /\ inflight' = RemoveAt(inflight, i)
  /\ UNCHANGED <<originalImage, mimeType, selectedStyle, customStyle,
                 isDragging, readers, accepted>>

\* the rest of handleGenerate (App.tsx:107-127) once the i-th pending call
\* has settled with outcome
RequestSettles(i, outcome) ==
  /\ i \in 1..Len(inflight)
  /\ LET r == Settled(outcome)
     IN  /\ generatedImage' = (IF r.image # None THEN r.image ELSE generatedImage)
         /\ error' = (IF r.message # None THEN r.message ELSE error)
         /\ lastOp' = Op("settle", IF r.image # None THEN "image" ELSE "failed")
  /\ isGenerating' = FALSE
  /\ inflight' = RemoveAt(inflight, i)
  /\ UNCHANGED <<originalImage, mimeType, selectedStyle, customStyle,
                 isDragging, readers, accepted>>

\* handleDownload (App.tsx:130-138); the button is rendered only while
\* generatedImage is set (App.tsx:298).  It saves a file and leaves the
\* state of the component alone.
handleDownload ==
  /\ generatedImage # None
  /\ lastOp' = lastOp
  /\ UNCHANGED <<uiState, readers, inflight, accepted>>

-----------------------------------------------------------------------------
(* Specifications *)

FileLists == {None} \cup { Some(f) : f \in Files }

\* what a user can do with the rendered page, and the two completions
Next ==
  \/ \E file \in Files : handleFileChange(file)
  \/ handleDragOver
  \/ handleDragLeave
  \/ \E files \in FileLists : handleDrop(files)
  \/ \E i \in 1..MaxReaders : ReaderOnload(i)
  \/ RemoveImage
  \/ \E id \in PresetIds : ChoosePreset(id)
  \/ ChooseCustom
  \/ \E text \in CustomTexts : EditCustom(text)
  \/ ClickGenerate
  \/ \E i \in 1..MaxRequests, outcome \in Outcomes : RequestSettles(i, outcome)
  \/ handleDownload

Spec == Init /\ [][Next]_vars

\* the same, and handleGenerate called directly where the button is disabled
NextDirect ==
  \/ Next
  \/ InvokeHandleGenerate

SpecDirect == Init /\ [][NextDirect]_vars

\* some pending call settles: the promise of generateContent resolves or
\* rejects and the continuation of handleGenerate runs
SettleSome ==
  /\ inflight # << >>
  /\ \E i \in 1..MaxRequests, outcome \in Outcomes : RequestSettles(i, outcome)

\* the page with a remote call that does not stay pending for ever: the
\* event loop runs the continuation of a settled promise (every such step
\* takes a call out of inflight)
SpecLive == Init /\ [][Next]_vars /\ WF_inflight(SettleSome)

-----------------------------------------------------------------------------
(* Steps, named for the properties below.  The first conjunct of each is  *)
(* implied by the actions after it and only spares their evaluation.      *)

ProcessFileStep(file) ==
  /\ lastOp'.h = "processFile"
  /\ handleFileChange(file) \/ handleDrop(Some(file))

GenerateStep ==
  /\ lastOp'.h = "handleGenerate"
  /\ ClickGenerate \/ InvokeHandleGenerate

SettledWith(outcome) ==
  /\ Len(inflight') < Len(inflight)
  /\ \E i \in 1..MaxRequests : RequestSettles(i, outcome)

SettleStep == \E outcome \in Outcomes : SettledWith(outcome)

OnloadStep ==
  /\ Len(readers') < Len(readers)
  /\ \E i \in 1..MaxReaders : ReaderOnload(i)

NotAnImage == [type |-> "text/plain", data |-> "aGk="]

\* the step set error to a message
ErrorStep ==
  \/ (lastOp'.b = "invalid" /\ ProcessFileStep(NotAnImage))
  \/ (lastOp'.b \in {"noImage", "noStyle"} /\ GenerateStep)
  \/ (lastOp'.b = "failed" /\ SettleStep)

\* the outcomes whose first candidate has a part with inline image data
ImageOutcomes ==
  { outcome \in Outcomes :
      /\ outcome.kind = "resolve"
      /\ outcome.candidates # None
      /\ Len(outcome.candidates[1]) > 0
      /\ outcome.candidates[1][1].content # None
      /\ \E k \in 1..Len(outcome.candidates[1][1].content[1].parts) :
           outcome.candidates[1][1].content[1].parts[k].inlineData # None }

\* the outcomes that resolve without a candidate, or with a first candidate
\* that has no part with inline image data
NoImageOutcomes ==
  { outcome \in Outcomes : outcome.kind = "resolve" } \ ImageOutcomes

\* the outcomes that reject
RejectOutcomes == { outcome \in Outcomes : outcome.kind = "reject" }

-----------------------------------------------------------------------------
(* C1 .. C10 *)

\* C1: under the page's own events at most one remote call is pending at any
\* time, and one is pending exactly while isGenerating is true, so a call is
\* issued only after the previous one has settled.
C1_AtMostOneRequest ==
  /\ Len(inflight) <= 1
  /\ isGenerating <=> (Len(inflight) = 1)

\* a second call, issued after the first one had delivered its result
C1_Witness ==
  /\ lastOp.h = "handleGenerate" /\ lastOp.b = "start"
  /\ generatedImage # None
  /\ Len(inflight) = 1

\* C2: after a file read completes, and after Remove Image, generatedImage
\* is absent; Remove Image leaves originalImage absent too.
C2_ResultClearedOnLoadAndRemove ==
  /\ (lastOp.h = "onload") => (originalImage # None /\ generatedImage = None)
  /\ (lastOp.h = "removeImage") => (originalImage = None /\ generatedImage = None)

\* Remove Image was used while a result was shown
C2_Witness ==
  /\ lastOp.h = "removeImage"
  /\ lastOp.clearedResult
  /\ originalImage = None
  /\ generatedImage = None

\* C3 as stated: mimeType is empty whenever originalImage is absent.
C3_Original == originalImage = None => mimeType = ""

\* C3 amended: mimeType is written only by a completed file read, which
\* sets it to the media type of the image it loads; Remove Image leaves it
\* as it was, so it is empty only until the first load.
C3_MimeTypeSetOnlyByLoad ==
  [][ /\ (mimeType' # mimeType) => OnloadStep
      /\ (originalImage' # None)
           => StartsWith(originalImage'[1], "data:" \o mimeType' \o ";base64,")
      /\ RemoveImage => (mimeType' = mimeType /\ mimeType' # "") ]_vars

\* an image was loaded and removed: no image, and a media type
C3_Witness ==
  /\ lastOp.h = "removeImage"
  /\ originalImage = None
  /\ mimeType \in {"image/png", "image/jpeg"}

\* C4 as stated: after any operation that set error, isGenerating is false.
C4_Original ==
  lastOp.b \in {"invalid", "noImage", "noStyle", "failed"} => ~isGenerating

\* C4 amended: an error set by the completion of a call comes with
\* isGenerating false; an error set by a validation (file type, missing
\* image, missing style) leaves isGenerating as it was.
C4_ErrorAndBusyFlag ==
  [][ /\ (lastOp'.b = "failed" /\ SettleStep) => (error' # None /\ ~isGenerating')
      /\ (ProcessFileStep(NotAnImage)
            \/ (lastOp'.b \in {"noImage", "noStyle"} /\ GenerateStep))
           => (error' # None /\ isGenerating' = isGenerating) ]_vars

\* a file that is no image was offered while a call was pending
C4_Witness ==
  /\ lastOp.b = "invalid"
  /\ error = Some(MSG_INVALID_TYPE)
  /\ isGenerating
  /\ Len(inflight) = 1

\* C5 as stated: after a completion that delivers an image, generatedImage
\* is set, error is absent and isGenerating is false.
C5_Original ==
  (lastOp.h = "settle" /\ lastOp.b = "image")
    => (generatedImage # None /\ error = None /\ ~isGenerating)

\* C5 amended: a completion that delivers an image sets generatedImage to
\* the data-URI of that image and isGenerating to false, and leaves error as
\* it was.
C5_ResultDelivered ==
  [][ \A outcome \in ImageOutcomes :
        SettledWith(outcome)
        => /\ generatedImage' \in { Some("data:image/jpeg;base64,AAAA"),
                                    Some("data:image/png;base64,BBBB") }
           /\ outcome = Resolve(Some(<< Candidate(
                          << ImagePart(Some("image/jpeg"), "AAAA") >>) >>))
                => generatedImage' = Some("data:image/jpeg;base64,AAAA")
           /\ ~isGenerating'
           /\ error' = error ]_vars

\* a result arrived while the banner showed the file-type message
C5_Witness ==
  /\ lastOp.h = "settle" /\ lastOp.b = "image"
  /\ error = Some(MSG_INVALID_TYPE)
  /\ generatedImage = Some("data:image/jpeg;base64,AAAA")
  /\ ~isGenerating

\* C6: error is absent after a completed file read and after a generation
\* attempt that passed both checks.
C6_ErrorClearedOnLoadAndStart ==
  /\ (lastOp.h = "onload") => (error = None)
  /\ (lastOp.h = "handleGenerate" /\ lastOp.b = "start") => error = None

\* a generation attempt started while the banner showed an error
C6_Witness ==
  /\ lastOp.h = "handleGenerate" /\ lastOp.b = "start"
  /\ lastOp.clearedError
  /\ error = None
  /\ isGenerating

\* C7: a step that sets error leaves originalImage and generatedImage alone,
\* and error goes from a message to absent only in a completed file read or
\* at the start of a generation attempt.
C7_ErrorFrame ==
  [][ /\ ErrorStep
           => (originalImage' = originalImage /\ generatedImage' = generatedImage)
      /\ (error # None /\ error' = None)
           => (OnloadStep \/ (GenerateStep /\ lastOp'.b = "start")) ]_vars

\* Remove Image was used while the banner showed an error, which stayed
C7_Witness ==
  /\ lastOp.h = "removeImage"
  /\ error # None

\* C8: processFile on a file that is no image, from the picker or from a
\* drop, sets error to the file-type message, starts no read and leaves the
\* image, its media type, the result, the busy flag and the style alone.
C8_InvalidTypeOnlySetsError ==
  [][ ProcessFileStep(NotAnImage)
        => /\ error' = Some(MSG_INVALID_TYPE)
           /\ UNCHANGED <<originalImage, mimeType, generatedImage, isGenerating,
                          selectedStyle, customStyle, readers, inflight>> ]_vars

\* a file that is no image was offered while an image and its result were
\* shown (the drop target is not rendered then, so by the picker)
C8_Witness ==
  /\ lastOp.h = "processFile" /\ lastOp.b = "invalid"
  /\ error = Some(MSG_INVALID_TYPE)
  /\ originalImage # None
  /\ generatedImage # None

\* C9: handleGenerate without an image sets error to the missing-image
\* message, whatever the style, issues no call and leaves isGenerating and
\* generatedImage alone.
C9_NoImageFirst ==
  [][ (GenerateStep /\ originalImage = None)
        => /\ error' = Some(MSG_NO_IMAGE)
           /\ UNCHANGED <<inflight, isGenerating, generatedImage>> ]_vars

\* handleGenerate ran without an image and with a blank custom style, while
\* an earlier call was pending
C9_Witness ==
  /\ lastOp.h = "handleGenerate" /\ lastOp.b = "noImage"
  /\ error = Some(MSG_NO_IMAGE)
  /\ originalImage = None
  /\ selectedStyle = "custom" /\ customStyle = << >>
  /\ isGenerating

\* a text is empty or white space only: each of its code units is one of
\* tab, line feed, vertical tab, form feed, carriage return, space, U+00A0,
\* U+1680, U+2000 .. U+200A, U+2028, U+2029, U+202F, U+205F, U+3000, U+FEFF
WhiteSpaceOnly(t) ==
  \A k \in 1..Len(t) :
    \/ t[k] \in {9, 10, 11, 12, 13, 32, 160, 5760, 8232, 8233, 8239, 8287,
                 12288, 65279}
    \/ (t[k] >= 8192 /\ t[k] <= 8202)

\* C10: handleGenerate with an image and a custom style that is empty or
\* white space only, whichever white space characters it is made of, sets
\* error to the missing-style message, issues no call and leaves
\* isGenerating alone; with any other custom text it does not set that
\* message.
C10_BlankStyleRejected ==
  [][ /\ ( /\ GenerateStep
            /\ originalImage # None
            /\ selectedStyle = "custom"
            /\ WhiteSpaceOnly(customStyle) )
            => /\ error' = Some(MSG_NO_STYLE)
               /\ UNCHANGED <<inflight, isGenerating>>
      /\ ( /\ GenerateStep
            /\ originalImage # None
            /\ selectedStyle = "custom"
            /\ ~WhiteSpaceOnly(customStyle) )
            => error' # Some(MSG_NO_STYLE) ]_vars

\* handleGenerate ran with an image and a custom style made of white space
\* characters inside and outside ASCII, the full-width space U+3000 among them
C10_Witness ==
  /\ lastOp.h = "handleGenerate" /\ lastOp.b = "noStyle"
  /\ error = Some(MSG_NO_STYLE)
  /\ originalImage # None
  /\ selectedStyle = "custom"
  /\ Len(customStyle) = 24
  /\ \E k \in 1..Len(customStyle) : customStyle[k] = 12288
  /\ \E k \in 1..Len(customStyle) : customStyle[k] = 160
  /\ WhiteSpaceOnly(customStyle)
  /\ ~isGenerating
  /\ inflight = << >>

-----------------------------------------------------------------------------
(* C11 .. C20 *)

\* C11: a completion whose response has no candidate, or whose first
\* candidate has no part with inline image data, sets error to the
\* unable-to-generate message and isGenerating to false and leaves
\* generatedImage as it was.
C11_Original ==
  [][ \A outcome \in NoImageOutcomes :
        SettledWith(outcome)
        => /\ error' = Some(MSG_NO_RESULT)
           /\ ~isGenerating'
           /\ generatedImage' = generatedImage ]_vars

\* C12: a completion by rejection sets error to the rejection's message, or
\* to the fallback message when the rejection has no message or an empty one,
\* sets isGenerating to false and leaves originalImage and generatedImage as
\* they were.
C12_RejectionMessage ==
  [][ \A outcome \in RejectOutcomes :
        SettledWith(outcome)
        => /\ (outcome = Reject(Some("quota exceeded")))
                => error' = Some("quota exceeded")
           /\ (outcome \in {Reject(Some("")), Reject(None)})
                => error' = Some(MSG_FALLBACK)
           /\ error' \in {Some("quota exceeded"), Some(MSG_FALLBACK)}
           /\ ~isGenerating'
           /\ UNCHANGED <<originalImage, generatedImage>> ]_vars

\* a call was rejected with a message while an earlier result was shown,
\* which stayed
C12_Witness ==
  /\ lastOp.h = "settle" /\ lastOp.b = "failed"
  /\ error = Some("quota exceeded")
  /\ originalImage # None
  /\ generatedImage # None
  /\ ~isGenerating

\* the three conditions of C13, stated on the state
TriggerOff ==
  \/ originalImage = None
  \/ isGenerating
  \/ (selectedStyle = "custom" /\ WhiteSpaceOnly(customStyle))

\* C13: the trigger button is disabled exactly when there is no image, or a
\* call is pending, or the style is custom and its text is empty or white
\* space only; a click is delivered only in the other states, and typing
\* text that is not blank with an image and no pending call enables it.
C13_TriggerDisabledExactly ==
  [][ /\ Disabled <=> TriggerOff
      /\ Disabled' <=> TriggerOff'
      /\ (selectedStyle = "custom" /\ WhiteSpaceOnly(customStyle)) => Disabled
      /\ (lastOp'.h = "handleGenerate" /\ ClickGenerate) => ~TriggerOff
      /\ \A text \in CustomTexts :
           ( /\ customStyle' # customStyle /\ EditCustom(text)
             /\ originalImage # None /\ ~isGenerating )
           => /\ ~WhiteSpaceOnly(text) => ~Disabled'
              /\ (WhiteSpaceOnly(text) /\ selectedStyle = "custom") => Disabled' ]_vars

\* with an image and no pending call, text was typed for the custom style:
\* the button is enabled
C13_Witness ==
  /\ originalImage # None
  /\ ~isGenerating
  /\ inflight = << >>
  /\ selectedStyle = "custom"
  /\ customStyle = OilPaintText
  /\ ~Disabled

\* the instructions C14 names, as the source's template gives them
C14_Head == Str("Convert this image to the following style: ")
C14_Tail == Str(". Keep the main subject and composition the same.")
C14_OilPaint ==
  Str("Convert this image to the following style:  oil paint . Keep the main subject and composition the same.")
C14_Sketch ==
  Str("Convert this image to the following style: Pencil sketch style, detailed, black and white, hand-drawn. Keep the main subject and composition the same.")

\* C14: the instruction of every call issued carries the prompt resolved
\* from the state at the trigger: the catalog entry's prompt for a catalog id,
\* the custom text as typed for custom; a pending call is never altered.
C14_RequestCarriesResolvedPrompt ==
  [][ /\ (lastOp'.b = "start" /\ GenerateStep)
           => /\ Len(inflight') = Len(inflight) + 1
              /\ LET text == inflight'[Len(inflight')].text
                 IN  /\ (selectedStyle = "custom") =>
                          text = C14_Head \o customStyle \o C14_Tail
                     /\ (selectedStyle = "custom" /\ customStyle = OilPaintText) =>
                          text = C14_OilPaint
                     /\ (selectedStyle = "sketch") =>
                          text = C14_Sketch
                     /\ (selectedStyle # "custom") =>
                          \E k \in 1..Len(PRESET_STYLES) :
                            /\ PRESET_STYLES[k].id = selectedStyle
                            /\ text = C14_Head \o PRESET_STYLES[k].prompt \o C14_Tail
      /\ (Len(inflight') >= Len(inflight))
           => SubSeq(inflight', 1, Len(inflight)) = inflight
      /\ (Len(inflight') < Len(inflight))
           => \E i \in 1..Len(inflight) : inflight' = RemoveAt(inflight, i) ]_vars

\* a call issued for the custom text is pending, and the style was changed
\* to a preset since
C14_Witness ==
  /\ Len(inflight) = 1
  /\ inflight[1].text = C14_OilPaint
  /\ selectedStyle \in PresetIds
  /\ isGenerating

\* C15: choosing a preset or custom changes selectedStyle and nothing else,
\* and customStyle changes only when the custom text is edited.
C15_StyleChoiceFrame ==
  [][ /\ (selectedStyle' # selectedStyle
             /\ ((\E id \in PresetIds : ChoosePreset(id)) \/ ChooseCustom))
           => UNCHANGED <<customStyle, originalImage, mimeType, generatedImage,
                          isGenerating, error, isDragging, readers, inflight>>
      /\ (selectedStyle' # selectedStyle)
           => (selectedStyle' \in PresetIds \cup {"custom"} /\ customStyle' = customStyle)
      /\ (customStyle' # customStyle)
           => \E text \in CustomTexts : EditCustom(text) ]_vars

\* text was typed for the custom style and a preset chosen after: the text
\* is kept
C15_Witness ==
  /\ selectedStyle \in PresetIds
  /\ customStyle = OilPaintText

\* C16: at every point of a behaviour a state with isGenerating false is
\* still to come or present, so every state in which isGenerating is true is
\* followed by one in which it is false, whatever the outcome of the call and
\* whatever the user does meanwhile, given that the call settles; and
\* isGenerating is never true while no call is pending.
C16_BusyEnds ==
  /\ []<>(~isGenerating)
  /\ [](inflight = << >> => ~isGenerating)

\* a call that delivered no image has ended and the busy flag is down
C16_Witness ==
  /\ lastOp.h = "settle" /\ lastOp.b = "failed"
  /\ error = Some(MSG_NO_RESULT)
  /\ ~isGenerating
  /\ inflight = << >>

\* C17: the result is the first part with inline image data of the first
\* candidate, whatever parts come before or after it, with the part's media
\* type or image/png when it has none; later candidates are not looked at.
C17_FirstImagePartOfFirstCandidate ==
  [][ /\ (lastOp'.b = "image" /\ SettledWith(Resolve(Some(<< Candidate(
            << TextPart("ok"), ImagePart(None, "BBBB") >>) >>))))
           => generatedImage' = Some("data:image/png;base64,BBBB")
      /\ (lastOp'.b = "image" /\ SettledWith(Resolve(Some(<< Candidate(
            << ImagePart(Some(""), "BBBB"),
               ImagePart(Some("image/jpeg"), "AAAA") >>) >>))))
           => generatedImage' = Some("data:image/png;base64,BBBB")
      /\ (lastOp'.b = "image" /\ SettledWith(Resolve(Some(<< Candidate(
            << ImagePart(Some("image/jpeg"), "AAAA") >>) >>))))
           => generatedImage' = Some("data:image/jpeg;base64,AAAA")
      /\ SettledWith(Resolve(Some(
            << Candidate(<< TextPart("ok") >>),
               Candidate(<< ImagePart(Some("image/jpeg"), "AAAA") >>) >>)))
           => /\ generatedImage' = generatedImage
              /\ error' = Some(MSG_NO_RESULT)
              /\ lastOp'.b = "failed"
    ]_vars

\* a result was taken from an image part without a media type
C17_Witness ==
  /\ lastOp.h = "settle" /\ lastOp.b = "image"
  /\ generatedImage = Some("data:image/png;base64,BBBB")
  /\ error = None

\* C18: whenever generatedImage is set, originalImage is set, and a
\* completion that delivers a result belongs to a call that carried the image
\* loaded at that moment.
C18_Original ==
  [][ /\ (generatedImage' # None) => (originalImage' # None)
      /\ (lastOp'.b = "image" /\ SettleStep)
           => /\ originalImage # None
              /\ \E i \in 1..Len(inflight) :
                   /\ inflight' = RemoveAt(inflight, i)
                   /\ Some(inflight[i].data) = Some(Base64Data(originalImage[1]))
    ]_vars

\* each of the five catalog prompts has a character that is not white space
C19_PresetPromptsNotBlank ==
  /\ Len(PRESET_STYLES) = 5
  /\ \A k \in 1..Len(PRESET_STYLES) :
       /\ ~WhiteSpaceOnly(PRESET_STYLES[k].prompt)
       /\ Trim(PRESET_STYLES[k].prompt) # << >>

\* C19: where the button is enabled there is an image, the resolved prompt
\* is not blank (the custom text, when the style is custom, has a character
\* that is not white space) and no call is pending; a delivered click issues
\* one call; and error is never the missing-image or the missing-style
\* message, the style being one of the five catalog ids or custom.  The
\* construction of the client (App.tsx:87) is taken to succeed, as the
\* claim takes it.
C19_ClickAlwaysStarts ==
  [][ /\ (~Disabled)
           => /\ ~NoImage
              /\ originalImage # None
              /\ ~PromptMissing(PromptText(selectedStyle, customStyle))
              /\ (selectedStyle = "custom") => ~WhiteSpaceOnly(customStyle)
              /\ inflight = << >>
      /\ (selectedStyle = "custom" /\ WhiteSpaceOnly(customStyle)) => Disabled
      /\ (lastOp'.h = "handleGenerate" /\ ClickGenerate)
           => /\ lastOp'.b = "start"
              /\ Len(inflight') = Len(inflight) + 1
              /\ isGenerating'
              /\ error' = None
      /\ error' \notin {Some(MSG_NO_IMAGE), Some(MSG_NO_STYLE)}
      /\ selectedStyle' \in PresetIds \cup {"custom"}
      /\ C19_PresetPromptsNotBlank ]_vars

\* a click with the custom style and its text passed both checks
C19_Witness ==
  /\ lastOp.h = "handleGenerate" /\ lastOp.b = "start"
  /\ selectedStyle = "custom"
  /\ customStyle = OilPaintText
  /\ Len(inflight) = 1
  /\ isGenerating

\* C20: when the last of the pending reads completes, originalImage and
\* mimeType are those of the file accepted last, in whatever order the reads
\* completed.
C20_Original ==
  [][ (OnloadStep /\ readers' = << >>)
        => /\ accepted # None
           /\ originalImage' = Some(ReadAsDataURL(accepted[1]))
           /\ mimeType' = accepted[1].type ]_vars

====
